---------------------------- MODULE Spec2Model ----------------------------
(***************************************************************************)
(* Classical simulation of Shor's factorisation algorithm                  *)
(* (simulShore.py): find_order and shors_algorithm.                        *)
(*                                                                         *)
(* One call tree of shors_algorithm(n) is modelled.  Every recursive call  *)
(* of shors_algorithm is in tail position (return shors_algorithm(...)),   *)
(* so the call tree is a chain: `depth' counts the pending outer frames    *)
(* and the locals of the innermost frame are the state.  Printing is not   *)
(* modelled (verbose only selects print statements).                       *)
(***************************************************************************)
EXTENDS Integers, Sequences, FiniteSets, TLC

\* ------------------------------------------------------------------ bounds
\* largest input n of shors_algorithm
MaxN == 81
\* largest input n in the runs under fair drawing
MaxFairN == 35
\* pending frames are counted up to MaxDepth; depth = MaxDepth stands for
\* "MaxDepth or more"
MaxDepth == 2
\* largest modulus and largest explicit max_order of a direct find_order call
MaxOrdN == 12
MaxBound == 13

\* ------------------------------------------------------- program constants
max_attempts == 10

\* Python's None, and Some(v), as sequences
None == <<>>
Some(v) == <<v>>

VARIABLES
    n,          \* argument n of shors_algorithm
    verbose,    \* argument verbose of the innermost call
    depth,      \* number of pending outer frames of shors_algorithm
    pc,         \* position of the innermost call
    attempt,    \* number of completed iterations of the sampling loop
    a,          \* local a (last drawn base)
    g,          \* local g
    r,          \* local r: None or Some(order)
    x,          \* local x
    ret,        \* value returned by the innermost finished call
    fo_a, fo_n, fo_max,   \* arguments of find_order
    fo_r,       \* find_order: loop index r (0 before the first iteration)
    fo_result,  \* find_order: local result
    fo_ret,     \* find_order: returned value, None or Some(r)
    drew,       \* history: random.randint was called in this call tree
    called_fo   \* history: find_order was called in this call tree

vars == <<n, verbose, depth, pc, attempt, a, g, r, x, ret,
          fo_a, fo_n, fo_max, fo_r, fo_result, fo_ret, drew, called_fo>>

shorLocals == <<attempt, a, g, r, x>>
foVars == <<fo_a, fo_n, fo_max, fo_r, fo_result, fo_ret>>
history == <<drew, called_fo>>

\* ------------------------------------------------------------ arithmetic
\* math.gcd on non-negative integers
RECURSIVE gcd(_, _)
gcd(u, v) == IF v = 0 THEN u ELSE gcd(v, u % v)

\* u ** e, exact integer power
RECURSIVE Power(_, _)
Power(u, e) == IF e = 0 THEN 1 ELSE u * Power(u, e - 1)

\* pow(u, e, m)
RECURSIVE pow(_, _, _)
pow(u, e, m) == IF e = 0 THEN 1 % m ELSE (u * pow(u, e - 1, m)) % m

\* int(math.log2(m)) for m >= 1
RECURSIVE Log2Floor(_)
Log2Floor(m) == IF m < 2 THEN 0 ELSE 1 + Log2Floor(m \div 2)

\* largest f >= from with f^k <= m
RECURSIVE FloorRootFrom(_, _, _)
FloorRootFrom(m, k, from) ==
    IF Power(from + 1, k) > m THEN from ELSE FloorRootFrom(m, k, from + 1)

\* round(m ** (1 / k)): the integer nearest to the real k-th root of m.
\* With f the floor root, the root is >= f + 1/2 iff 2^k * m >= (2f+1)^k
\* (a tie is impossible: one side is even, the other odd).
RoundedRoot(m, k) ==
    LET f == FloorRootFrom(m, k, 0)
    IN  IF Power(2, k) * m >= Power(2 * f + 1, k) THEN f + 1 ELSE f


\* ------------------------------------------------------------ find_order
\* mutant: the default bound is n // 2
DefaultMaxOrder_half(max_order, m) ==
    IF max_order = None THEN m \div 2 ELSE max_order[1]

\* if max_order is None: max_order = n
DefaultMaxOrder(max_order, m) == IF max_order = None THEN m ELSE max_order[1]

\* mutant: range(1, max_order)
FoContinue_short(i, max_order) == i < max_order - 1

\* for r in range(1, max_order + 1): another iteration follows index i
FoContinue(i, max_order) == i < max_order

\* result = (result * a) % n
FoStep(result, u, m) == (result * u) % m

\* one iteration of the loop of find_order, or its exit with None
FindOrderStep ==
    /\ pc = "fo_loop"
    /\ IF FoContinue(fo_r, fo_max)
       THEN /\ fo_r' = fo_r + 1
            /\ fo_result' = FoStep(fo_result, fo_a, fo_n)
            /\ IF fo_result' = 1
               THEN fo_ret' = Some(fo_r') /\ pc' = "fo_done"
               ELSE fo_ret' = fo_ret /\ pc' = "fo_loop"
       ELSE /\ fo_ret' = None
            /\ pc' = "fo_done"
            /\ UNCHANGED <<fo_r, fo_result>>
    /\ UNCHANGED <<fo_a, fo_n, fo_max>>
    /\ UNCHANGED <<n, verbose, depth, ret, shorLocals, history>>

\* ------------------------------------------------------- shors_algorithm
\* mutant: the parity test inverted
IsEven_odd(m) == m % 2 = 1

\* if n % 2 == 0
IsEven(m) == m % 2 = 0

\* return (2, n // 2)
EvenPair(m) == <<2, m \div 2>>

\* for k in range(2, int(math.log2(n)) + 1): a = round(n ** (1 / k));
\* if a ** k == n: return (a, a ** (k - 1)).  None when the loop ends.
RECURSIVE PowerScan(_, _, _)
PowerScan(m, k, kmax) ==
    IF k > kmax THEN None
    ELSE LET root == RoundedRoot(m, k)
         IN  IF Power(root, k) = m
             THEN <<root, Power(root, k - 1)>>
             ELSE PowerScan(m, k + 1, kmax)

\* mutant: the exponents are tried from the largest down
RECURSIVE PowerScanDown(_, _)
PowerScanDown(m, k) ==
    IF k < 2 THEN None
    ELSE LET root == RoundedRoot(m, k)
         IN  IF Power(root, k) = m
             THEN <<root, Power(root, k - 1)>>
             ELSE PowerScanDown(m, k - 1)

PerfectPower_down(m) == PowerScanDown(m, Log2Floor(m))

PerfectPower(m) == PowerScan(m, 2, Log2Floor(m))

\* mutant: if g >= 1
SampleHit_always(gg) == gg >= 1

\* mutant: the short-circuit never taken
SampleHit_never(gg) == FALSE

\* if g != 1
SampleHit(gg) == gg # 1

\* mutant: range(max_attempts - 1)
LoopExit_early(done) == IF done = max_attempts - 1 THEN "order" ELSE "sample"

\* for attempt in range(max_attempts): position after `done' iterations
LoopExit(done) == IF done = max_attempts THEN "order" ELSE "sample"

\* if r % 2 == 1
IsOdd(rr) == rr % 2 = 1

\* mutant: verbose passed through
RecursiveVerbose_same(v) == v

\* the verbose argument of a recursive call: verbose=False
RecursiveVerbose(v) == FALSE

\* mutant: if x == 1
IsDegenerate_one(xx, m) == xx = 1

\* if x == n - 1
IsDegenerate(xx, m) == xx = m - 1

\* mutant: factor1 = gcd(x, n)
Factor1_x(xx, m) == gcd(xx, m)

\* factor1 = gcd(x - 1, n); factor2 = gcd(x + 1, n)
Factor1(xx, m) == gcd(xx - 1, m)

Factor2(xx, m) == gcd(xx + 1, m)

\* factor > 1 and factor < n
Nontrivial(f, m) == f > 1 /\ f < m

\* return v: the innermost call finishes with value v
Return(v) ==
    /\ ret' = v
    /\ pc' = "return"
    /\ UNCHANGED <<n, verbose, depth>>

\* return shors_algorithm(n, verbose=False): a new innermost frame on the
\* same n with fresh locals
Recurse ==
    /\ pc' = "even"
    /\ n' = n
    /\ verbose' = RecursiveVerbose(verbose)
    /\ depth' = IF depth < MaxDepth THEN depth + 1 ELSE MaxDepth
    /\ ret' = ret

\* Step 1: check if n is even
CheckEven ==
    /\ pc = "even"
    /\ IF IsEven(n) THEN Return(EvenPair(n))
       ELSE pc' = "power" /\ UNCHANGED <<n, verbose, depth, ret>>
    /\ UNCHANGED <<shorLocals, foVars, history>>

\* Step 2: check if n is a perfect power
CheckPerfectPower ==
    /\ pc = "power"
    /\ LET pp == PerfectPower(n)
       IN  IF pp # None THEN Return(pp)
           ELSE pc' = "sample" /\ UNCHANGED <<n, verbose, depth, ret>>
    /\ UNCHANGED <<shorLocals, foVars, history>>

\* Steps 3-4: one iteration of the sampling loop, random.randint(2, n - 1)
\* giving v
Draw(v) ==
    /\ pc = "sample"
    /\ a' = v
    /\ g' = gcd(v, n)
    /\ drew' = TRUE
    /\ IF SampleHit(g')
       THEN Return(<<g', n \div g'>>) /\ attempt' = attempt
       ELSE /\ attempt' = attempt + 1
            /\ pc' = LoopExit(attempt')
            /\ UNCHANGED <<n, verbose, depth, ret>>
    /\ UNCHANGED <<r, x, foVars, called_fo>>

\* random.randint(2, n - 1) raises ValueError on an empty range
DrawEmptyRange ==
    /\ pc = "sample"
    /\ n - 1 < 2
    /\ pc' = "raised"
    /\ drew' = TRUE
    /\ UNCHANGED <<n, verbose, depth, ret, shorLocals, foVars, called_fo>>

\* Step 5: r = find_order(a, n), the call
CallFindOrder ==
    /\ pc = "order"
    /\ fo_a' = a
    /\ fo_n' = n
    /\ fo_max' = DefaultMaxOrder(None, n)
    /\ fo_r' = 0
    /\ fo_result' = 1
    /\ fo_ret' = None
    /\ called_fo' = TRUE
    /\ pc' = "fo_loop"
    /\ UNCHANGED <<n, verbose, depth, ret, shorLocals, drew>>

\* r = find_order(a, n), the assignment of the returned value; the frame of
\* find_order is gone
FindOrderReturned ==
    /\ pc = "fo_done"
    /\ r' = fo_ret
    /\ pc' = "parity"
    /\ fo_a' = 0 /\ fo_n' = 0 /\ fo_max' = 0 /\ fo_r' = 0 /\ fo_result' = 0
    /\ fo_ret' = None
    /\ UNCHANGED <<n, verbose, depth, ret, attempt, a, g, x, history>>

\* if r is None: return None.  Step 6: if r is odd, try again.
\* Step 7: x = pow(a, r // 2, n)
ParityGate ==
    /\ pc = "parity"
    /\ IF r = None
       THEN Return(None) /\ UNCHANGED shorLocals
       ELSE IF IsOdd(r[1])
            THEN Recurse /\ attempt' = 0 /\ a' = 0 /\ g' = 0 /\ r' = None /\ x' = 0
            ELSE /\ x' = pow(a, r[1] \div 2, n)
                 /\ pc' = "degenerate"
                 /\ UNCHANGED <<n, verbose, depth, ret, attempt, a, g, r>>
    /\ UNCHANGED <<foVars, history>>

\* Step 8: if x == n - 1, try again
DegenerateCheck ==
    /\ pc = "degenerate"
    /\ IF IsDegenerate(x, n)
       THEN Recurse /\ attempt' = 0 /\ a' = 0 /\ g' = 0 /\ r' = None /\ x' = 0
       ELSE pc' = "extract" /\ UNCHANGED <<n, verbose, depth, ret, shorLocals>>
    /\ UNCHANGED <<foVars, history>>

\* Steps 9-10: gcd(x - 1, n), gcd(x + 1, n) and the three exits
ExtractFactors ==
    /\ pc = "extract"
    /\ LET factor1 == Factor1(x, n)
           factor2 == Factor2(x, n)
       IN  IF Nontrivial(factor1, n)
           THEN Return(<<factor1, n \div factor1>>) /\ UNCHANGED shorLocals
           ELSE IF Nontrivial(factor2, n)
                THEN Return(<<factor2, n \div factor2>>) /\ UNCHANGED shorLocals
                ELSE Recurse /\ attempt' = 0 /\ a' = 0 /\ g' = 0
                             /\ r' = None /\ x' = 0
    /\ UNCHANGED <<foVars, history>>

\* a finished call hands its value to the pending caller, whose statement is
\* `return shors_algorithm(n, verbose=False)': it returns the same value
\* (from depth = MaxDepth, "MaxDepth or more", the frames above the bound
\* are left by steps that change nothing)
ReturnToCaller ==
    /\ pc = "return"
    /\ IF depth = 0
       THEN pc' = "done" /\ depth' = depth
       ELSE pc' = "return" /\ depth' = depth - 1
    /\ ret' = ret
    /\ UNCHANGED <<n, verbose, shorLocals, foVars, history>>

\* ------------------------------------------------------- specifications
\* the state at the call shors_algorithm(m, verbose)
Start(m) ==
    /\ n = m
    /\ verbose \in BOOLEAN
    /\ depth = 0
    /\ pc = "even"
    /\ attempt = 0 /\ a = 0 /\ g = 0 /\ r = None /\ x = 0
    /\ ret = None
    /\ fo_a = 0 /\ fo_n = 0 /\ fo_max = 0 /\ fo_r = 0 /\ fo_result = 0
    /\ fo_ret = None
    /\ drew = FALSE /\ called_fo = FALSE

Init == \E m \in 1..MaxN : Start(m)

FairInit == \E m \in 1..MaxFairN : Start(m)

Next ==
    \/ CheckEven
    \/ CheckPerfectPower
    \/ \E v \in 2..(n - 1) : Draw(v)
    \/ DrawEmptyRange
    \/ CallFindOrder
    \/ FindOrderStep
    \/ FindOrderReturned
    \/ ParityGate
    \/ DegenerateCheck
    \/ ExtractFactors
    \/ ReturnToCaller

Spec == Init /\ [][Next]_vars

\* a draw that shares a factor with n
DrawShared == \E v \in 2..(n - 1) : gcd(v, n) # 1 /\ Draw(v)

\* Fair random drawing: the steps of the program are taken, and a draw
\* outcome that is possible again and again is eventually drawn.
FairSpec == FairInit /\ [][Next]_vars /\ WF_vars(Next) /\ SF_vars(DrawShared)

\* A direct call find_order(a, n, max_order) with max_order None or a number
OrderInit ==
    /\ fo_n \in 2..MaxOrdN
    /\ fo_a \in 1..(fo_n - 1)
    /\ \E mo \in {None} \cup {Some(b) : b \in 0..MaxBound} :
          fo_max = DefaultMaxOrder(mo, fo_n)
    /\ fo_r = 0 /\ fo_result = 1 /\ fo_ret = None
    /\ pc = "fo_loop"
    /\ n = 0 /\ verbose = FALSE /\ depth = 0
    /\ attempt = 0 /\ a = 0 /\ g = 0 /\ r = None /\ x = 0
    /\ ret = None
    /\ drew = FALSE /\ called_fo = TRUE

OrderNext == FindOrderStep

OrderSpec == OrderInit /\ [][OrderNext]_vars

\* --------------------------------------------------------- verification
Divides(d, m) == m % d = 0

IsPrime(m) == m >= 2 /\ \A d \in 2..(m - 1) : ~Divides(d, m)

OddPrime(m) == IsPrime(m) /\ m >= 3

\* m has at least two distinct prime factors
TwoDistinctPrimes(m) ==
    \E p1 \in 2..m : \E p2 \in 2..m :
        /\ p1 # p2 /\ IsPrime(p1) /\ IsPrime(p2)
        /\ Divides(p1, m) /\ Divides(p2, m)

\* m = b^k, by repeated exact division
RECURSIVE IsPowerOf(_, _, _)
IsPowerOf(m, b, k) ==
    IF k = 0 THEN m = 1 ELSE Divides(b, m) /\ IsPowerOf(m \div b, b, k - 1)

\* the exponents k >= 2 for which m is an exact k-th power of some b >= 2
Exponents(m) == {k \in 2..m : \E b \in 2..m : IsPowerOf(m, b, k)}

IsPerfectPower(m) == Exponents(m) # {}

SmallestExponent(m) == CHOOSE k \in Exponents(m) : \A j \in Exponents(m) : k <= j

SmallestBase(m) == CHOOSE b \in 2..m : IsPowerOf(m, b, SmallestExponent(m))

Returned == pc \in {"return", "done"}

ValidPair(v, m) ==
    /\ Len(v) = 2
    /\ v[1] * v[2] = m
    /\ 1 < v[1] /\ v[1] < m
    /\ 1 < v[2] /\ v[2] < m

\* C1 (as stated): for every positive n, every returned pair (p, q), on any
\* return path of any call of the chain, has p*q = n, 1 < p < n, 1 < q < n.
C1_AllPositive == (Returned /\ ret # None) => ValidPair(ret, n)

\* C1 (amended): for every positive n other than 2, every returned pair
\* (p, q) has p*q = n, 1 < p < n and 1 < q < n.
C1_ValidPair == (Returned /\ ret # None /\ n # 2) => ValidPair(ret, n)

\* a pair returned by factor extraction after order finding
C1_Witness == pc = "done" /\ ret # None /\ called_fo /\ attempt = max_attempts

\* C2 (as stated): after max_attempts coprime draws the call returns None
\* without calling find_order.
C2_TerminalFailure ==
    (depth = 0 /\ attempt = max_attempts) =>
        (~called_fo /\ pc # "fo_loop" /\ (Returned => ret = None))

\* C2 (amended): a draw a with g = gcd(a, n) # 1 returns (g, n // g) at once;
\* a coprime draw counts one attempt, and after max_attempts coprime draws the
\* call goes on to find_order(a, n) with the last drawn a.
C2_Sampling ==
    [][ /\ (pc = "sample" /\ n >= 3) =>
            IF gcd(a', n) # 1
            THEN /\ pc' = "return"
                 /\ ret' = <<gcd(a', n), n \div gcd(a', n)>>
                 /\ attempt' = attempt
            ELSE /\ attempt' = attempt + 1
                 /\ ret' = ret
                 /\ pc' = IF attempt' = max_attempts THEN "order" ELSE "sample"
        /\ (pc = "order") =>
            /\ attempt = max_attempts
            /\ gcd(a, n) = 1
            /\ pc' = "fo_loop" /\ fo_a' = a /\ fo_n' = n /\ called_fo'
      ]_vars

\* find_order running on the last of max_attempts coprime draws
C2_Witness == pc = "fo_loop" /\ attempt = max_attempts /\ fo_a = a /\ depth = 0

\* the deterministic answer claimed for a perfect power
PowerAnswer(m) == <<SmallestBase(m), m \div SmallestBase(m)>>

\* C3 (as stated): every perfect power n = a^k returns (a, a^(k-1)) for the
\* smallest k, without drawing and without find_order.
C3_AllPowers ==
    (pc = "done" /\ IsPerfectPower(n)) =>
        (ret = PowerAnswer(n) /\ ~drew /\ ~called_fo)

\* C3 (amended): every odd perfect power n = a^k returns (a, a^(k-1)) for
\* the smallest k, without drawing and without find_order.
C3_OddPowers ==
    (Returned /\ IsPerfectPower(n) /\ n % 2 = 1) =>
        (ret = PowerAnswer(n) /\ ~drew /\ ~called_fo /\ depth = 0)

\* 81 = 9^2 = 3^4: the smaller exponent is chosen
C3_Witness == pc = "done" /\ n = 81 /\ ret = <<9, 9>>

\* the orders r in 1..bound with u^r mod m = 1
Orders(u, m, bound) == {e \in 1..bound : pow(u, e, m) = 1}

\* C4: for n >= 2 and a in [1, n-1] coprime to n, the running value after k
\* iterations is a^k mod n, and find_order returns the least r in
\* 1..max_order with a^r mod n = 1, None exactly when there is none.
C4_FindOrder ==
    (fo_n >= 2 /\ fo_a \in 1..(fo_n - 1) /\ gcd(fo_a, fo_n) = 1) =>
        /\ pc = "fo_loop" => fo_result = pow(fo_a, fo_r, fo_n)
        /\ pc = "fo_done" =>
            IF Orders(fo_a, fo_n, fo_max) = {}
            THEN fo_ret = None
            ELSE /\ fo_ret # None
                 /\ fo_ret[1] \in Orders(fo_a, fo_n, fo_max)
                 /\ \A e \in Orders(fo_a, fo_n, fo_max) : fo_ret[1] <= e

\* an order found in the last permitted iteration
C4_Witness ==
    /\ pc = "fo_done" /\ fo_ret = Some(fo_max) /\ fo_max > 2
    /\ gcd(fo_a, fo_n) = 1

\* C5: under fair drawing, a call on an odd n with two distinct prime
\* factors, started anywhere in the chain, ends in a returned factor pair.
C5_Succeeds ==
    (pc = "even" /\ n % 2 = 1 /\ TwoDistinctPrimes(n))
        ~> (pc = "done" /\ ret # None /\ ValidPair(ret, n))

\* success after at least one retry
C5_Witness ==
    /\ pc = "done" /\ n % 2 = 1 /\ TwoDistinctPrimes(n) /\ ret # None
    /\ called_fo /\ attempt < max_attempts

\* C6: every even n >= 4 returns (2, n/2) at the even check: the perfect-power
\* check is not reached, nothing is drawn, find_order is not called, no
\* recursion.
C6_Even ==
    (n % 2 = 0 /\ n >= 4) =>
        /\ pc \in {"even", "return", "done"}
        /\ Returned => ret = <<2, n \div 2>>
        /\ ~drew /\ ~called_fo /\ depth = 0

\* an even perfect power answered by the even check
C6_Witness == pc = "done" /\ n = 16 /\ ret = <<2, 8>>

\* C7: for an odd prime n no call returns or reaches factor extraction, and
\* the chain restarts again and again.
C7_PrimeNeverEnds ==
    /\ [](OddPrime(n) => pc \notin {"return", "done", "raised", "extract"})
    /\ []<>(OddPrime(n) => (pc = "even" /\ depth > 0))

\* a retry of the prime 17 at the degenerate check
C7_Witness == n = 17 /\ pc = "degenerate" /\ x = 16 /\ depth = MaxDepth

\* C8: an odd order, or x = n - 1, restarts on the same n with verbose False
\* and fresh locals; n never changes; a pending caller passes the value on
\* unchanged.
C8_Restart ==
    [][ /\ n' = n
        /\ ((pc = "parity" /\ r # None /\ r[1] % 2 = 1)
             \/ (pc = "degenerate" /\ x = n - 1)) =>
                (pc' = "even" /\ verbose' = FALSE /\ attempt' = 0
                 /\ depth' >= depth)
        /\ (pc = "return") => (ret' = ret /\ pc' \in {"return", "done"})
      ]_vars

\* the value of a recursive call on its way to the outer caller
C8_Witness == pc = "return" /\ depth > 0 /\ ret # None /\ ~verbose

\* C9: for odd n >= 3 no call returns None: find_order is reached only with
\* a coprime base and finds an order r with 1 <= r <= n - 1.
C9_NeverNone ==
    (n % 2 = 1 /\ n >= 3) =>
        /\ Returned => ret # None
        /\ pc \in {"order", "fo_loop", "fo_done"} =>
               (gcd(a, n) = 1 /\ attempt = max_attempts)
        /\ pc = "fo_done" => (fo_ret # None /\ fo_ret[1] \in 1..(n - 1))
        /\ pc = "parity" => r # None

\* an order equal to n - 1
C9_Witness == pc = "parity" /\ n >= 3 /\ r = Some(n - 1)

\* C10: at factor extraction gcd(x - 1, n) is a nontrivial factor, and the
\* call returns (factor1, n // factor1).
C10_Factor1 ==
    [][ (pc = "extract") =>
            /\ gcd(a, n) = 1
            /\ 1 < gcd(x - 1, n) /\ gcd(x - 1, n) < n
            /\ pc' = "return"
            /\ ret' = <<gcd(x - 1, n), n \div gcd(x - 1, n)>>
      ]_vars

\* factor extraction reached
C10_Witness == pc = "extract" /\ r # None /\ x # n - 1

=============================================================================
